---- MODULE Spec2Model ----
(* Model of src/process_all_pdfs.py: the batch driver (main), the per-item   *)
(* pipeline (process_single_pdf), the translator wrappers                     *)
(* (translate_text_via_deepl, translate_long_text), the markup parser         *)
(* (extract_data_from_xml) and the document writer (create_word_document).    *)
(* Texts are sequences of one-character strings; the two remote services and  *)
(* the filesystem failures are nondeterministic choices of the environment.   *)
EXTENDS Integers, Sequences, FiniteSets, TLC

\* ---------------------------------------------------------------- bounds
MaxRuns == 2      \* number of invocations of main() over the same directories
MaxParas == 2     \* <p> elements of the markup given to the parser on its own
MaxBibs == 2      \* biblStruct entries of that markup
MaxLen  == 6      \* length of the texts given to translate_long_text on its own

\* ---------------------------------------------------------------- texts
NL == "\n"
SP == " "
SEP == <<NL, NL>>                      \* the blank-line separator "\n\n"

\* str.strip() removes leading and trailing whitespace
IsSpace(c) == c \in {SP, NL}

\* `not text or not text.strip()` / `not para.strip()`
IsBlank(t) == \A j \in 1..Len(t) : IsSpace(t[j])

Strip(t) ==
  IF IsBlank(t) THEN <<>>
  ELSE LET ks == {j \in 1..Len(t) : ~IsSpace(t[j])}
           lo == CHOOSE j \in ks : \A m \in ks : j <= m
           hi == CHOOSE j \in ks : \A m \in ks : j >= m
       IN SubSeq(t, lo, hi)

\* str.split("\n\n"): leftmost, non-overlapping occurrences of the separator
SepAt(t, j) == j + 1 <= Len(t) /\ t[j] = NL /\ t[j + 1] = NL

RECURSIVE Split(_)
Split(t) ==
  IF \E j \in 1..Len(t) : SepAt(t, j)
  THEN LET j == CHOOSE m \in 1..Len(t) : SepAt(t, m) /\ \A n \in 1..(m - 1) : ~SepAt(t, n)
       IN <<SubSeq(t, 1, j - 1)>> \o Split(SubSeq(t, j + 2, Len(t)))
  ELSE <<t>>

\* "\n\n".join(list)
RECURSIVE Join(_)
Join(l) ==
  IF Len(l) = 0 THEN <<>>
  ELSE IF Len(l) = 1 THEN l[1]
  ELSE l[1] \o SEP \o Join(Tail(l))

\* "".join(p.itertext())
RECURSIVE Concat(_)
Concat(l) == IF Len(l) = 0 THEN <<>> ELSE l[1] \o Concat(Tail(l))

\* ---------------------------------------------------------------- parser
\* Markup is an abstract TEI tree: the header's first title element (present or
\* not, with its .text; None and "" are both <<>>), the <p> elements of the text
\* section (each the sequence of its itertext() fragments) and the biblStruct
\* entries (each sub-element's text, <<>> when the element or its text is missing).
MalformedXml == [wellformed |-> FALSE]  \* markup ET.fromstring rejects
NO_TITLE == <<"No Title Found">>
EXTRACTION_FAILED == <<"Extraction Failed">>
DigitStr == <<"1", "2", "3", "4", "5", "6", "7", "8", "9">>

TitleOf(xml) ==
  IF xml.title.present /\ xml.title.text # <<>> THEN Strip(xml.title.text) ELSE NO_TITLE

RECURSIVE BodyList(_)
BodyList(ps) ==
  IF Len(ps) = 0 THEN <<>>
  ELSE LET text == Strip(Concat(ps[1]))
       IN (IF text # <<>> THEN <<text>> ELSE <<>>) \o BodyList(Tail(ps))

\* " ".join(ref_text_parts)
RECURSIVE JoinSp(_)
JoinSp(l) ==
  IF Len(l) = 0 THEN <<>>
  ELSE IF Len(l) = 1 THEN l[1]
  ELSE l[1] \o <<SP>> \o JoinSp(Tail(l))

RefParts(bib) ==
     (IF bib.title # <<>> THEN << <<"\"">> \o bib.title \o <<"\"">> >> ELSE <<>>)
  \o (IF bib.when # <<>> THEN << <<"(">> \o bib.when \o <<")">> >> ELSE <<>>)
  \o (IF bib.publisher # <<>> THEN <<bib.publisher>> ELSE <<>>)

RefString(n, bib) ==
  LET full_ref_str == JoinSp(RefParts(bib))
  IN <<"[", DigitStr[n], "]", SP>>
       \o (IF full_ref_str = <<>> THEN EXTRACTION_FAILED ELSE full_ref_str)

\* mutant: an entry without parts is dropped and its number goes to the next one
References_SkipsFailed(bibs) ==
  LET found == SelectSeq(bibs, LAMBDA bib : RefParts(bib) # <<>>)
  IN [n \in 1..Len(found) |-> RefString(n, found[n])]

References(bibs) == [n \in 1..Len(bibs) |-> RefString(n, bibs[n])]

NoData == [none |-> TRUE]               \* extract_data_from_xml returned None

extract_data_from_xml(xml) ==
  IF ~xml.wellformed THEN NoData
  ELSE [none |-> FALSE,
        title |-> TitleOf(xml),
        body |-> Join(BodyList(xml.paras)),
        references |-> References(xml.bibs)]

\* mutant: only None is tested, an empty body goes on to translation
NoBody_OnlyNone(data) == data.none
\* `not extracted_data or not extracted_data['body']`
NoBody(data) == data.none \/ data.body = <<>>

\* ---------------------------------------------------------------- translator
QUOTA_SENTINEL == <<"[Translation Error: Quota Exceeded]">>
STATUS_OK == 200
STATUS_QUOTA == 456
\* statuses the code has no branch for: authentication failure, server error
OtherStatuses == {403, 500}

\* What the translation service may answer to one request: a status (with the
\* translated text when the status is 200), or an exception inside the try block
\* (the request raises, or a 200 payload cannot be decoded).  The service
\* is opaque: a success carries either a marked translation or the text itself
\* (a service that echoes its input).
Ja(text) == <<"J">> \o text
DeeplResponses(text) ==
  {[raised |-> FALSE, status |-> STATUS_OK, translation |-> tr] : tr \in {Ja(text), text}}
  \cup {[raised |-> FALSE, status |-> st, translation |-> <<>>] :
           st \in {STATUS_QUOTA} \cup OtherStatuses}
  \cup {[raised |-> TRUE, status |-> 0, translation |-> <<>>]}
NoResponse == [raised |-> FALSE, status |-> 0, translation |-> <<>>]

\* whether translate_text_via_deepl issues a request at all (line 36)
SendsRequest(text) == ~IsBlank(text)

\* mutant: every status other than 200 yields a sentinel (the quota branch
\* without its status test)
translate_text_via_deepl_AlwaysSentinel(text, resp) ==
  IF ~SendsRequest(text) THEN <<>>
  ELSE IF resp.raised THEN text
  ELSE IF resp.status = STATUS_OK THEN resp.translation
  ELSE QUOTA_SENTINEL

\* the value translate_text_via_deepl returns, given the service's answer
translate_text_via_deepl(text, resp) ==
  IF ~SendsRequest(text) THEN <<>>
  ELSE IF resp.raised THEN text
  ELSE IF resp.status = STATUS_OK THEN resp.translation
  ELSE IF resp.status = STATUS_QUOTA THEN QUOTA_SENTINEL
  ELSE text

\* ---------------------------------------------------------------- inputs
\* File names are token sequences; ".pdf" is one token.
PDF == ".pdf"
PdfNames == {<<"a", PDF>>, <<"b", PDF>>, <<"a", PDF, PDF>>}
\* the input directories considered: empty, two unrelated files, and two files
\* whose names differ only by a repeated ".pdf"
InputDirs == {{}, {<<"a", PDF>>, <<"b", PDF>>}, {<<"a", PDF>>, <<"a", PDF, PDF>>}}

\* os.path.basename(pdf_path).replace(".pdf", ""): every occurrence is removed
base_filename(pdf) == SelectSeq(pdf, LAMBDA tok : tok # PDF)
Bases == {base_filename(p) : p \in PdfNames}

\* glob.glob returns the matching files in arbitrary order
Orders(dir) ==
  {o \in UNION {[1..n -> dir] : n \in {Cardinality(dir)}} :
      \A x, y \in 1..Cardinality(dir) : x # y => o[x] # o[y]}

\* Markup the extraction service may return with status 200
Frag(t) == <<t>>                       \* a <p> with a single text fragment
Bib(t, w, pb) == [title |-> t, when |-> w, publisher |-> pb]
EmptyBodyXml ==
  [wellformed |-> TRUE, title |-> [present |-> TRUE, text |-> <<"t">>],
   paras |-> <<Frag(<<SP>>)>>, bibs |-> <<>>]
OneParaXml ==
  [wellformed |-> TRUE, title |-> [present |-> FALSE, text |-> <<>>],
   paras |-> <<Frag(<<"a">>)>>, bibs |-> <<Bib(<<"r">>, <<"y">>, <<>>)>>]
TwoParaXml ==
  [wellformed |-> TRUE, title |-> [present |-> TRUE, text |-> <<"t">>],
   paras |-> <<Frag(<<"a">>), Frag(<<SP>>), <<<<"b">>, <<SP>>>> >>,
   bibs |-> <<Bib(<<>>, <<>>, <<>>), Bib(<<"r">>, <<>>, <<"p">>)>>]
GappedParaXml ==
  [wellformed |-> TRUE, title |-> [present |-> TRUE, text |-> <<SP>>],
   paras |-> <<Frag(<<"a", NL, NL, SP, NL, NL, "b">>)>>, bibs |-> <<>>]
GrobidMarkups == {MalformedXml, EmptyBodyXml, OneParaXml, TwoParaXml, GappedParaXml}

\* What the extraction request may do: raise (connection level), or answer a status
GrobidErrorStatuses == {500, 503}

\* ---------------------------------------------------------------- state
API_KEY == "key"                       \* the environment sets DEEPL_API_KEY
NO_KEY == "None"                       \* it does not: os.getenv returns None
NoFile == [exists |-> FALSE]
\* a final document found in the output directory that this program did not write
ForeignDocx == [exists |-> TRUE, heading |-> <<"x">>, subtitle |-> <<"x">>,
                blocks |-> <<>>, references |-> <<>>]

VARIABLES
  DEEPL_API_KEY,          \* os.getenv("DEEPL_API_KEY"), read once at import (line 14)
  input_dir,              \* the *.pdf files of INPUT_DIR
  xml_files,              \* OUTPUT_XML_DIR:  base name -> file
  docx_files,             \* OUTPUT_DOCX_DIR: base name -> file
  run,                    \* how many times main() was started
  pc,                     \* position of the program
  pdf_files, k,           \* main: the glob result and the loop position
  xml_content, extracted_data, jp_title, jp_body,    \* process_single_pdf locals
  full_text, paragraphs, i, translated_paragraphs,   \* translate_long_text locals
  grobid_log,             \* this run's extraction requests, in order
  deepl_log,              \* this run's translation requests, in order
  exchanges,              \* the answers to the translation requests of the call in
                          \* progress (the title's, then translate_long_text's)
  stages                  \* the stages process_single_pdf has run for the current item

\* The credential sent as auth_key (line 40).  Nothing tests it: when the
\* variable is unset the request goes out without a usable key, and the service
\* can only refuse it (or the request raises).
ServiceAnswers(text) ==
  IF DEEPL_API_KEY = NO_KEY
  THEN {r \in DeeplResponses(text) : r.raised \/ r.status = 403}
  ELSE DeeplResponses(text)

fs == <<xml_files, docx_files>>
mainv == <<DEEPL_API_KEY, input_dir, run, pdf_files, k>>
pspv == <<xml_content, extracted_data, jp_title>>
tltv == <<full_text, paragraphs, i, translated_paragraphs>>
logs == <<grobid_log, deepl_log, exchanges>>
vars == <<DEEPL_API_KEY, input_dir, xml_files, docx_files, run, pc, pdf_files, k, xml_content,
          extracted_data, jp_title, jp_body, full_text, paragraphs, i,
          translated_paragraphs, grobid_log, deepl_log, exchanges, stages>>

pdf_path == pdf_files[k]
base == base_filename(pdf_path)
Stopped == pc \in {"idle", "done", "no_pdf", "crashed"}

Locals0 ==
  /\ xml_content = MalformedXml /\ extracted_data = NoData
  /\ jp_title = <<>> /\ jp_body = <<>>
  /\ full_text = <<>> /\ paragraphs = <<>> /\ i = 0 /\ translated_paragraphs = <<>>
  /\ grobid_log = <<>> /\ deepl_log = <<>> /\ exchanges = <<>> /\ stages = <<>>

Init ==
  /\ DEEPL_API_KEY \in {API_KEY, NO_KEY}
  /\ input_dir \in InputDirs
  /\ xml_files = [b \in Bases |-> NoFile]
  /\ docx_files \in {[b \in Bases |-> NoFile],
                     [b \in Bases |-> IF b = <<"a">> THEN ForeignDocx ELSE NoFile]}
  /\ run = 0 /\ pc = "idle" /\ pdf_files = <<>> /\ k = 0
  /\ Locals0

\* ---------------------------------------------------------------- main
\* main(): setup_directories, glob, then the loop over pdf_files (lines 228-236)
Main ==
  /\ Stopped /\ run < MaxRuns
  /\ run' = run + 1
  /\ \E o \in Orders(input_dir) :
       /\ pdf_files' = o
       /\ IF o = <<>> THEN pc' = "no_pdf" /\ k' = 0 ELSE pc' = "psp" /\ k' = 1
  /\ xml_content' = MalformedXml /\ extracted_data' = NoData
  /\ jp_title' = <<>> /\ jp_body' = <<>>
  /\ full_text' = <<>> /\ paragraphs' = <<>> /\ i' = 0 /\ translated_paragraphs' = <<>>
  /\ grobid_log' = <<>> /\ deepl_log' = <<>> /\ exchanges' = <<>> /\ stages' = <<>>
  /\ UNCHANGED <<DEEPL_API_KEY, input_dir, fs>>

\* process_single_pdf returned: the next iteration of `for pdf in pdf_files`, or
\* the completion message after the last one (lines 238-241)
LoopNext ==
  /\ pc = "next"
  /\ IF k < Len(pdf_files) THEN k' = k + 1 /\ pc' = "psp" ELSE k' = k /\ pc' = "done"
  /\ xml_content' = MalformedXml /\ extracted_data' = NoData
  /\ jp_title' = <<>> /\ jp_body' = <<>>
  /\ full_text' = <<>> /\ paragraphs' = <<>> /\ i' = 0 /\ translated_paragraphs' = <<>>
  /\ exchanges' = <<>> /\ stages' = <<>>
  /\ UNCHANGED <<DEEPL_API_KEY, input_dir, fs, run, pdf_files, grobid_log, deepl_log>>

\* ---------------------------------------------------------------- process_single_pdf
\* mutant: the test of lines 175-177 is missing, a finished item is processed again
DocxExists_NoSkip == FALSE
\* mutant: the skip test looks at the raw-markup path instead of the final document
DocxExists_TestsXmlPath == xml_files[base].exists
DocxExists == docx_files[base].exists
\* mutant: the existing raw markup is never reused, the item is extracted again
XmlExists_NeverCached == FALSE
XmlExists == xml_files[base].exists

\* lines 175-177: the final document exists, return at once
SkipDone ==
  /\ pc = "psp" /\ DocxExists
  /\ pc' = "next"
  /\ UNCHANGED <<mainv, fs, pspv, jp_body, tltv, logs, stages>>

\* lines 183-186: the raw markup exists and is read
LoadXml ==
  /\ pc = "psp" /\ ~DocxExists /\ XmlExists
  /\ xml_content' = xml_files[base].content
  /\ pc' = "parse"
  /\ stages' = Append(stages, "load")
  /\ UNCHANGED <<mainv, fs, extracted_data, jp_title, jp_body, tltv, logs>>

\* lines 185-186 raise (unreadable file, undecodable bytes): no handler encloses
\* them, the exception leaves process_single_pdf and main
LoadXmlRaises ==
  /\ pc = "psp" /\ ~DocxExists /\ XmlExists
  /\ pc' = "crashed"
  /\ UNCHANGED <<mainv, fs, pspv, jp_body, tltv, logs, stages>>

GrobidEntry(raised, status) == [item |-> k, raised |-> raised, status |-> status]

\* line 189 raises (the input cannot be opened): caught at 201-203
GrobidOpenFails ==
  /\ pc = "psp" /\ ~DocxExists /\ ~XmlExists
  /\ pc' = "next"
  /\ stages' = Append(stages, "extract")
  /\ UNCHANGED <<mainv, fs, pspv, jp_body, tltv, logs>>

\* line 191 raises (connection refused, timeout): caught at 201-203
GrobidRaises ==
  /\ pc = "psp" /\ ~DocxExists /\ ~XmlExists
  /\ grobid_log' = Append(grobid_log, GrobidEntry(TRUE, 0))
  /\ pc' = "next"
  /\ stages' = Append(stages, "extract")
  /\ UNCHANGED <<mainv, fs, pspv, jp_body, tltv, deepl_log, exchanges>>

\* mutant: the `return` of line 195 is missing, the error body is saved and parsed
GrobidStatusError_NoReturn ==
  /\ pc = "psp" /\ ~DocxExists /\ ~XmlExists
  /\ \E st \in GrobidErrorStatuses :
       grobid_log' = Append(grobid_log, GrobidEntry(FALSE, st))
  /\ xml_content' = MalformedXml
  /\ xml_files' = [xml_files EXCEPT ![base] = [exists |-> TRUE, content |-> MalformedXml]]
  /\ pc' = "parse"
  /\ stages' = Append(stages, "extract")
  /\ UNCHANGED <<mainv, docx_files, extracted_data, jp_title, jp_body, tltv,
                 deepl_log, exchanges>>

\* lines 193-195: a status other than 200
GrobidStatusError ==
  /\ pc = "psp" /\ ~DocxExists /\ ~XmlExists
  /\ \E st \in GrobidErrorStatuses :
       grobid_log' = Append(grobid_log, GrobidEntry(FALSE, st))
  /\ pc' = "next"
  /\ stages' = Append(stages, "extract")
  /\ UNCHANGED <<mainv, fs, pspv, jp_body, tltv, deepl_log, exchanges>>

\* mutant: the markup is kept in memory and parsed, the write of lines 198-199
\* does not happen at this point
GrobidOk_NoWrite ==
  /\ pc = "psp" /\ ~DocxExists /\ ~XmlExists
  /\ \E m \in GrobidMarkups : xml_content' = m
  /\ grobid_log' = Append(grobid_log, GrobidEntry(FALSE, STATUS_OK))
  /\ pc' = "parse"
  /\ stages' = Append(stages, "extract")
  /\ UNCHANGED <<mainv, fs, extracted_data, jp_title, jp_body, tltv,
                 deepl_log, exchanges>>

\* lines 197-200: status 200, the markup is written to xml_path
GrobidOk ==
  /\ pc = "psp" /\ ~DocxExists /\ ~XmlExists
  /\ \E m \in GrobidMarkups :
       /\ xml_content' = m
       /\ xml_files' = [xml_files EXCEPT ![base] = [exists |-> TRUE, content |-> m]]
  /\ grobid_log' = Append(grobid_log, GrobidEntry(FALSE, STATUS_OK))
  /\ pc' = "parse"
  /\ stages' = Append(stages, "extract")
  /\ UNCHANGED <<mainv, docx_files, extracted_data, jp_title, jp_body, tltv,
                 deepl_log, exchanges>>

\* mutant: the failed write is swallowed on its own and the item goes on
GrobidWriteFails_GoesOn ==
  /\ pc = "psp" /\ ~DocxExists /\ ~XmlExists
  /\ \E m \in GrobidMarkups : xml_content' = m
  /\ grobid_log' = Append(grobid_log, GrobidEntry(FALSE, STATUS_OK))
  /\ pc' = "parse"
  /\ stages' = Append(stages, "extract")
  /\ UNCHANGED <<mainv, fs, extracted_data, jp_title, jp_body, tltv, deepl_log, exchanges>>

\* lines 197-198: status 200, but xml_path cannot be opened for writing: caught at 201-203
GrobidWriteFails ==
  /\ pc = "psp" /\ ~DocxExists /\ ~XmlExists
  /\ \E m \in GrobidMarkups : xml_content' = m
  /\ grobid_log' = Append(grobid_log, GrobidEntry(FALSE, STATUS_OK))
  /\ pc' = "next"
  /\ stages' = Append(stages, "extract")
  /\ UNCHANGED <<mainv, fs, extracted_data, jp_title, jp_body, tltv, deepl_log, exchanges>>

\* lines 206-209
Parse ==
  /\ pc = "parse"
  /\ extracted_data' = extract_data_from_xml(xml_content)
  /\ pc' = IF NoBody(extracted_data') THEN "next" ELSE "title"
  /\ stages' = Append(stages, "parse")
  /\ UNCHANGED <<mainv, fs, xml_content, jp_title, jp_body, tltv, logs>>

DeeplEntry(what, text) == [item |-> k, what |-> what, text |-> text]
Exchange(text, resp) == [text |-> text, resp |-> resp]

\* line 213, and the call of translate_long_text at line 215
TranslateTitle ==
  /\ pc = "title"
  /\ LET text == extracted_data.title IN
       IF SendsRequest(text)
       THEN \E resp \in ServiceAnswers(text) :
              /\ jp_title' = translate_text_via_deepl(text, resp)
              /\ deepl_log' = Append(deepl_log, DeeplEntry("title", text))
              /\ exchanges' = <<Exchange(text, resp)>>
       ELSE /\ jp_title' = translate_text_via_deepl(text, NoResponse)
            /\ UNCHANGED <<deepl_log, exchanges>>
  /\ full_text' = extracted_data.body
  /\ pc' = "tlt_split"
  /\ stages' = Append(stages, "title")
  /\ UNCHANGED <<mainv, fs, xml_content, extracted_data, jp_body, paragraphs, i,
                 translated_paragraphs, grobid_log>>

\* ---------------------------------------------------------------- translate_long_text
\* lines 60-61
TltSplit ==
  /\ pc = "tlt_split"
  /\ paragraphs' = Split(full_text)
  /\ translated_paragraphs' = <<>>
  /\ i' = 1
  /\ pc' = "tlt_loop"
  /\ exchanges' = <<>>
  /\ stages' = Append(stages, "body")
  /\ UNCHANGED <<mainv, fs, pspv, jp_body, full_text, grobid_log, deepl_log>>

\* mutant: the `continue` of line 66 is missing, a blank paragraph gets a slot
TltSkipBlank_KeepsSlot ==
  /\ pc = "tlt_loop" /\ i <= Len(paragraphs)
  /\ IsBlank(paragraphs[i])
  /\ translated_paragraphs' =
       Append(translated_paragraphs, translate_text_via_deepl(paragraphs[i], NoResponse))
  /\ i' = i + 1
  /\ UNCHANGED <<mainv, fs, pspv, jp_body, pc, full_text, paragraphs, logs, stages>>

\* line 66: a blank paragraph is passed over
TltSkipBlank ==
  /\ pc = "tlt_loop" /\ i <= Len(paragraphs)
  /\ IsBlank(paragraphs[i])
  /\ i' = i + 1
  /\ UNCHANGED <<mainv, fs, pspv, jp_body, pc, full_text, paragraphs,
                 translated_paragraphs, logs, stages>>

\* mutant: the loop ends at the first paragraph the service refuses for quota
TltTranslate_StopsOnQuota ==
  /\ pc = "tlt_loop" /\ i <= Len(paragraphs)
  /\ ~IsBlank(paragraphs[i])
  /\ LET para == paragraphs[i] IN
       \E resp \in ServiceAnswers(para) :
         /\ translated_paragraphs' =
              Append(translated_paragraphs, translate_text_via_deepl(para, resp))
         /\ deepl_log' = Append(deepl_log, DeeplEntry("body", para))
         /\ exchanges' = Append(exchanges, Exchange(para, resp))
         /\ i' = IF ~resp.raised /\ resp.status = STATUS_QUOTA
                 THEN Len(paragraphs) + 1 ELSE i + 1
  /\ UNCHANGED <<mainv, fs, pspv, jp_body, pc, full_text, paragraphs, grobid_log, stages>>

\* mutant: a request that raised is sent a second time
TltTranslate_Retries ==
  /\ pc = "tlt_loop" /\ i <= Len(paragraphs)
  /\ ~IsBlank(paragraphs[i])
  /\ LET para == paragraphs[i] IN
       \E resp \in ServiceAnswers(para) :
         /\ translated_paragraphs' =
              Append(translated_paragraphs, translate_text_via_deepl(para, resp))
         /\ deepl_log' =
              IF resp.raised
              THEN deepl_log \o <<DeeplEntry("body", para), DeeplEntry("body", para)>>
              ELSE Append(deepl_log, DeeplEntry("body", para))
         /\ exchanges' = Append(exchanges, Exchange(para, resp))
  /\ i' = i + 1
  /\ UNCHANGED <<mainv, fs, pspv, jp_body, pc, full_text, paragraphs, grobid_log, stages>>

\* lines 67-69: one paragraph is translated and appended
TltTranslate ==
  /\ pc = "tlt_loop" /\ i <= Len(paragraphs)
  /\ ~IsBlank(paragraphs[i])
  /\ LET para == paragraphs[i] IN
       IF SendsRequest(para)
       THEN \E resp \in ServiceAnswers(para) :
              /\ translated_paragraphs' =
                   Append(translated_paragraphs, translate_text_via_deepl(para, resp))
              /\ deepl_log' = Append(deepl_log, DeeplEntry("body", para))
              /\ exchanges' = Append(exchanges, Exchange(para, resp))
       ELSE /\ translated_paragraphs' =
                   Append(translated_paragraphs, translate_text_via_deepl(para, NoResponse))
            /\ UNCHANGED <<deepl_log, exchanges>>
  /\ i' = i + 1
  /\ UNCHANGED <<mainv, fs, pspv, jp_body, pc, full_text, paragraphs, grobid_log, stages>>

\* line 73, the result becomes jp_body (line 215)
TltReturn ==
  /\ pc = "tlt_loop" /\ i > Len(paragraphs)
  /\ jp_body' = Join(translated_paragraphs)
  /\ pc' = "word"
  /\ UNCHANGED <<mainv, fs, pspv, tltv, logs, stages>>

\* ---------------------------------------------------------------- create_word_document
\* mutant: the references go through the translator like the body
doc_data_TranslatedReferences ==
  [en_title |-> extracted_data.title, jp_title |-> jp_title,
   jp_body |-> jp_body,
   references |-> [n \in 1..Len(extracted_data.references) |->
                     Ja(extracted_data.references[n])]]

\* lines 218-223
doc_data ==
  [en_title |-> extracted_data.title, jp_title |-> jp_title,
   jp_body |-> jp_body, references |-> extracted_data.references]

\* lines 141-162: the document that is built
WordDocument(data) ==
  [exists |-> TRUE, heading |-> data.jp_title, subtitle |-> data.en_title,
   blocks |-> Split(data.jp_body), references |-> data.references]

\* mutant: a body holding the quota sentinel is taken as a failed item and not saved
CreateWord_SkipsOnQuota ==
  /\ pc = "word"
  /\ docx_files' =
       IF \E n \in 1..Len(translated_paragraphs) : translated_paragraphs[n] = QUOTA_SENTINEL
       THEN docx_files
       ELSE [docx_files EXCEPT ![base] = WordDocument(doc_data)]
  /\ pc' = "next"
  /\ stages' = Append(stages, "assemble")
  /\ exchanges' = <<>>
  /\ UNCHANGED <<mainv, xml_files, pspv, jp_body, tltv, grobid_log, deepl_log>>

\* line 164 succeeds
CreateWord ==
  /\ pc = "word"
  /\ docx_files' = [docx_files EXCEPT ![base] = WordDocument(doc_data)]
  /\ pc' = "next"
  /\ stages' = Append(stages, "assemble")
  /\ exchanges' = <<>>
  /\ UNCHANGED <<mainv, xml_files, pspv, jp_body, tltv, grobid_log, deepl_log>>

\* line 164 raises (the file cannot be written): no handler, the exception
\* leaves process_single_pdf and main
CreateWordRaises ==
  /\ pc = "word"
  /\ pc' = "crashed"
  /\ stages' = Append(stages, "assemble")
  /\ UNCHANGED <<mainv, fs, pspv, jp_body, tltv, logs>>

\* ---------------------------------------------------------------- specification
Next ==
  \/ Main \/ LoopNext
  \/ SkipDone \/ LoadXml \/ LoadXmlRaises
  \/ GrobidOpenFails \/ GrobidRaises \/ GrobidStatusError \/ GrobidOk \/ GrobidWriteFails
  \/ Parse \/ TranslateTitle
  \/ TltSplit \/ TltSkipBlank \/ TltTranslate \/ TltReturn
  \/ CreateWord \/ CreateWordRaises

Spec == Init /\ [][Next]_vars

\* translate_long_text on its own, applied to every text of at most MaxLen characters
Alphabet == {"a", "b", SP, NL}
Texts == UNION {[1..n -> Alphabet] : n \in 0..MaxLen}

InitLong ==
  /\ DEEPL_API_KEY = API_KEY
  /\ input_dir = {}
  /\ xml_files = [b \in Bases |-> NoFile]
  /\ docx_files = [b \in Bases |-> NoFile]
  /\ run = 0 /\ pdf_files = <<>> /\ k = 0
  /\ xml_content = MalformedXml /\ extracted_data = NoData
  /\ jp_title = <<>> /\ jp_body = <<>>
  /\ paragraphs = <<>> /\ i = 0 /\ translated_paragraphs = <<>>
  /\ grobid_log = <<>> /\ deepl_log = <<>> /\ exchanges = <<>> /\ stages = <<>>
  /\ full_text \in Texts
  /\ pc = "tlt_split"

NextLong == TltSplit \/ TltSkipBlank \/ TltTranslate \/ TltReturn

SpecLong == InitLong /\ [][NextLong]_vars

\* ---------------------------------------------------------------- properties
Last(q) == q[Len(q)]
\* the requests logged in this run for the item at loop position j
GrobidCallsOf(j) == SelectSeq(grobid_log, LAMBDA e : e.item = j)
DeeplCallsOf(j) == SelectSeq(deepl_log, LAMBDA e : e.item = j)

\* C1: when process_single_pdf is entered for an input whose final document
\* exists, its only step is to return: no extraction request, no translation
\* request, and no file created, modified or deleted, whether or not the raw
\* markup exists.
C1_FullCacheHitIsNoOp ==
  [][(pc = "psp" /\ docx_files[base_filename(pdf_files[k])].exists)
       => /\ pc' = "next"
          /\ UNCHANGED <<xml_files, docx_files, grobid_log, deepl_log>>]_vars

\* the item was skipped (no stage ran) although its raw markup is missing
C1_Witness ==
  /\ pc = "next" /\ stages = <<>>
  /\ docx_files[base_filename(pdf_files[k])].exists
  /\ ~xml_files[base_filename(pdf_files[k])].exists
  /\ GrobidCallsOf(k) = <<>> /\ DeeplCallsOf(k) = <<>>

\* C2 (as claimed): once an extraction request has raised for the item at loop
\* position j, no extraction or translation request is made for an item at a
\* later position of the same run.
C2_ConnectionFailureEndsBatch ==
  \A n \in 1..Len(grobid_log) :
    grobid_log[n].raised =>
      /\ \A m \in 1..Len(grobid_log) : grobid_log[m].item <= grobid_log[n].item
      /\ \A m \in 1..Len(deepl_log) : deepl_log[m].item <= grobid_log[n].item

\* C3: when the extraction service answers a status other than 200, the call of
\* process_single_pdf returns at once with no file written and no translation
\* request, and the loop of main goes on to the next input.
C3_StatusErrorSkipsItem ==
  [][/\ (/\ pc = "psp"
         /\ grobid_log' # grobid_log
         /\ ~Last(grobid_log').raised
         /\ Last(grobid_log').status # STATUS_OK)
        => /\ pc' = "next"
           /\ UNCHANGED <<xml_files, docx_files, deepl_log>>
     /\ (pc = "next" /\ k < Len(pdf_files)) => (pc' = "psp" /\ k' = k + 1)
     /\ (pc = "next" /\ k >= Len(pdf_files)) => pc' = "done"]_vars

\* the first item got status 500, nothing was written, and the second is entered
C3_Witness ==
  /\ pc = "psp" /\ k = 2
  /\ Len(grobid_log) = 1 /\ ~grobid_log[1].raised /\ grobid_log[1].status = 500
  /\ grobid_log[1].item = 1
  /\ \A b \in Bases : ~xml_files[b].exists /\ ~docx_files[b].exists
  /\ deepl_log = <<>>

\* the stages of a partial cache hit that goes through to the end
CachedStages == <<"load", "parse", "title", "body", "assemble">>
IsPrefix(p, q) == Len(p) <= Len(q) /\ SubSeq(q, 1, Len(p)) = p

\* C4 (as amended): when the final document is absent and the raw markup exists,
\* process_single_pdf makes no extraction request and leaves the raw-markup file
\* unchanged; once the file is read, the markup parsed is the file's content, and
\* when the parse yields a non-empty body the title translation, the body
\* translation and the assembly follow in that order; otherwise the item ends
\* after the parse.
C4_PartialCacheHit ==
  /\ [][(/\ pc = "psp"
         /\ ~docx_files[base_filename(pdf_files[k])].exists
         /\ xml_files[base_filename(pdf_files[k])].exists)
        => /\ UNCHANGED <<xml_files, docx_files, grobid_log>>
           /\ \/ pc' = "crashed"
              \/ /\ pc' = "parse"
                 /\ stages' = <<"load">>
                 /\ xml_content' = xml_files[base_filename(pdf_files[k])].content]_vars
  /\ []((stages # <<>> /\ stages[1] = "load") =>
          /\ GrobidCallsOf(k) = <<>>
          /\ xml_files[base_filename(pdf_files[k])] =
               [exists |-> TRUE, content |-> xml_content]
          /\ IsPrefix(stages, CachedStages)
          /\ Len(stages) >= 2 =>
               \/ extracted_data = [none |-> TRUE] /\ ~xml_content.wellformed
               \/ /\ ~extracted_data.none /\ xml_content.wellformed
                  /\ (extracted_data.body = <<>>) =
                       (\A n \in 1..Len(xml_content.paras) :
                            IsBlank(Concat(xml_content.paras[n])))
          /\ pc = "next" =>
               IF extracted_data.none \/ extracted_data.body = <<>>
               THEN stages = <<"load", "parse">>
                    /\ DeeplCallsOf(k) = <<>>
                    /\ ~docx_files[base_filename(pdf_files[k])].exists
               ELSE stages = CachedStages
                    /\ docx_files[base_filename(pdf_files[k])].exists)

\* a partial cache hit that ran every remaining stage and wrote the document
C4_Witness ==
  /\ pc = "next" /\ stages = CachedStages
  /\ GrobidCallsOf(k) = <<>>
  /\ Len(DeeplCallsOf(k)) = 3
  /\ docx_files[base_filename(pdf_files[k])].exists

\* C4 (as claimed): every partial cache hit runs all the remaining stages.
\* (Stated for an input whose base name no other input shares.)
C4_AllStagesRun ==
  (/\ pc = "next" /\ stages # <<>> /\ stages[1] = "load"
   /\ \A p \in input_dir :
        base_filename(p) = base_filename(pdf_files[k]) => p = pdf_files[k])
  => stages = CachedStages

\* C9 (as claimed): no exception leaves process_single_pdf; main is never ended
\* by a per-item failure.
C9_NoExceptionReachesMain == pc # "crashed"

\* C10: when the parser returns None or an empty body, process_single_pdf
\* returns without a translation request (none for the title either) and
\* without writing the final document.
C10_NoBodyNoTranslation ==
  /\ [][(pc = "parse" /\ (extracted_data'.none \/ extracted_data'.body = <<>>))
        => /\ pc' = "next"
           /\ UNCHANGED <<deepl_log, docx_files>>]_vars
  /\ []((pc = "next" /\ stages # <<>> /\ Last(stages) = "parse") =>
          /\ extracted_data.none \/ extracted_data.body = <<>>
          /\ DeeplCallsOf(k) = <<>>
          /\ ~docx_files[base_filename(pdf_files[k])].exists)
  /\ []((pc \in {"title", "tlt_split", "tlt_loop", "word"}) =>
          (~extracted_data.none /\ extracted_data.body # <<>>))

\* well-formed markup whose paragraphs are all blank: parsed, then dropped
C10_Witness ==
  /\ pc = "next" /\ stages = <<"extract", "parse">>
  /\ ~extracted_data.none /\ extracted_data.body = <<>>
  /\ xml_files[base_filename(pdf_files[k])].exists
  /\ DeeplCallsOf(k) = <<>>
  /\ ~docx_files[base_filename(pdf_files[k])].exists

\* the paragraphs of a text that are not blank, in order
NonBlankParagraphs(text) == SelectSeq(Split(text), LAMBDA para : ~IsBlank(para))
InLoop == pc \in {"tlt_loop", "word"}
LoopDone == pc = "word" \/ (pc = "tlt_loop" /\ i > Len(paragraphs))
Quota(resp) == ~resp.raised /\ resp.status = STATUS_QUOTA
Success(resp) == ~resp.raised /\ resp.status = STATUS_OK
OtherStatus(resp) == ~resp.raised /\ resp.status \notin {STATUS_OK, STATUS_QUOTA}

\* C5: in translate_long_text every non-blank paragraph gets one slot, in order;
\* the slot of a paragraph answered with status 456 holds the quota sentinel,
\* the slot of a paragraph answered with status 200 holds the translation
\* returned for it, the loop goes on after a 456 to the last paragraph, and the
\* result is the slots joined with the separator.
C5_QuotaSentinelInline ==
  /\ InLoop =>
       /\ Len(translated_paragraphs) = Len(exchanges)
       /\ Len(exchanges) <= Len(NonBlankParagraphs(full_text))
       /\ \A n \in 1..Len(exchanges) :
            /\ exchanges[n].text = NonBlankParagraphs(full_text)[n]
            /\ Quota(exchanges[n].resp) => translated_paragraphs[n] = QUOTA_SENTINEL
            /\ Success(exchanges[n].resp) =>
                 translated_paragraphs[n] = exchanges[n].resp.translation
  /\ LoopDone => Len(exchanges) = Len(NonBlankParagraphs(full_text))
  /\ pc = "word" => jp_body = Join(translated_paragraphs)

\* "a\n\nb": the first paragraph got 456, the second was still translated
C5_Witness ==
  /\ pc = "word" /\ full_text = <<"a", NL, NL, "b">>
  /\ Quota(exchanges[1].resp) /\ Success(exchanges[2].resp)
  /\ translated_paragraphs = <<QUOTA_SENTINEL, <<"J", "b">>>>
  /\ jp_body = QUOTA_SENTINEL \o <<NL, NL, "J", "b">>

Echoed(n) == Success(exchanges[n].resp) /\ exchanges[n].resp.translation = exchanges[n].text
C7_OnlyNonBlankParagraphs ==
  LoopDone =>
    LET nb == NonBlankParagraphs(full_text) IN
      /\ Len(translated_paragraphs) = Len(nb)
      /\ Len(exchanges) = Len(nb)
      /\ \A n \in 1..Len(nb) :
           /\ exchanges[n].text = nb[n]
           /\ Success(exchanges[n].resp) =>
                translated_paragraphs[n] = exchanges[n].resp.translation
           /\ Quota(exchanges[n].resp) => translated_paragraphs[n] = QUOTA_SENTINEL
           /\ (~Success(exchanges[n].resp) /\ ~Quota(exchanges[n].resp)) =>
                translated_paragraphs[n] = nb[n]
      /\ pc = "word" =>
           /\ jp_body = Join(translated_paragraphs)
           /\ (nb # <<>> /\ \A n \in 1..Len(nb) : Echoed(n)) =>
                (jp_body = Join(nb) /\ Split(jp_body) = nb)

\* "a\n\n\n\nb": one blank entry between two paragraphs, an echoing service
C7_Witness ==
  /\ pc = "word" /\ full_text = <<"a", NL, NL, NL, NL, "b">>
  /\ paragraphs = <<<<"a">>, <<>>, <<"b">>>>
  /\ Len(exchanges) = 2 /\ Echoed(1) /\ Echoed(2)
  /\ translated_paragraphs = <<<<"a">>, <<"b">>>>
  /\ jp_body = <<"a", NL, NL, "b">>

\* the translation requests of the current item, by caller
TitleRequests == SelectSeq(DeeplCallsOf(k), LAMBDA e : e.what = "title")
BodyRequests == SelectSeq(DeeplCallsOf(k), LAMBDA e : e.what = "body")
Translating == pc \in {"tlt_split", "tlt_loop", "word"}
Assembled == pc = "next" /\ stages # <<>> /\ Last(stages) = "assemble"

\* C8: within one call of process_single_pdf the body requests are, at every
\* moment, the first non-blank paragraphs of the body in order, one request per
\* paragraph whatever the answer was, and all of them once the loop has ended;
\* the title request (at most one, none for a blank title) comes before every
\* body request.
C8_RequestsInOrderOnce ==
  (Translating \/ Assembled) =>
    LET nb == NonBlankParagraphs(extracted_data.body) IN
      /\ DeeplCallsOf(k) = TitleRequests \o BodyRequests
      /\ Len(TitleRequests) = (IF IsBlank(extracted_data.title) THEN 0 ELSE 1)
      /\ \A n \in 1..Len(TitleRequests) : TitleRequests[n].text = extracted_data.title
      /\ Len(BodyRequests) <= Len(nb)
      /\ \A n \in 1..Len(BodyRequests) : BodyRequests[n].text = nb[n]
      /\ pc = "tlt_split" => BodyRequests = <<>>
      /\ pc \in {"tlt_loop", "word"} => Len(exchanges) = Len(BodyRequests)
      /\ (pc = "word" \/ Assembled) => Len(BodyRequests) = Len(nb)

\* title "t", body "a\n\nb": the request for "a" raised, the one for "b" got
\* status 500, and the requests are still exactly t, a, b
C8_Witness ==
  /\ pc = "word"
  /\ Len(exchanges) = 2
  /\ exchanges[1].resp.raised
  /\ ~exchanges[2].resp.raised /\ exchanges[2].resp.status = 500
  /\ DeeplCallsOf(k) = <<DeeplEntry("title", <<"t">>), DeeplEntry("body", <<"a">>),
                         DeeplEntry("body", <<"b">>)>>

\* C11 (as claimed): when DEEPL_API_KEY is absent, the program stops at startup:
\* no extraction request, no translation request and no artifact write happens.
C11_MissingKeyStopsAtStartup ==
  DEEPL_API_KEY = NO_KEY =>
    /\ grobid_log = <<>> /\ deepl_log = <<>>
    /\ \A b \in Bases : ~xml_files[b].exists
    /\ \A b \in Bases : docx_files[b] \in {NoFile, ForeignDocx}

\* C12: every text sent to the translation service for the current item is the
\* extracted title or a paragraph of the extracted body, never a reference
\* string; and the reference list of the final document is the parser's list,
\* unchanged and in order.
C12_ReferencesNotTranslated ==
  (Translating \/ Assembled) =>
    /\ \A n \in 1..Len(DeeplCallsOf(k)) :
         LET text == DeeplCallsOf(k)[n].text IN
           /\ \/ text = extracted_data.title
              \/ \E m \in 1..Len(Split(extracted_data.body)) :
                   text = Split(extracted_data.body)[m]
           /\ \A m \in 1..Len(extracted_data.references) :
                text # extracted_data.references[m]
    /\ Assembled =>
         docx_files[base_filename(pdf_files[k])].references = extracted_data.references

\* a document with two references was written after three translation requests
C12_Witness ==
  /\ Assembled
  /\ Len(DeeplCallsOf(k)) = 3
  /\ docx_files[base_filename(pdf_files[k])].references =
       << <<"[", "1", "]", SP>> \o EXTRACTION_FAILED,
          <<"[", "2", "]", SP, "\"", "r", "\"", SP, "p">> >>

\* ---------------------------------------------------------------- the parser on its own
\* extract_data_from_xml applied to every markup with one of the title elements
\* below, at most MaxParas paragraphs and at most MaxBibs bibliography entries
SeqsUpTo(S, max) == UNION {[1..n -> S] : n \in 0..max}
TitleElements ==
  {[present |-> FALSE, text |-> <<>>]}
  \cup {[present |-> TRUE, text |-> t] : t \in {<<>>, <<SP>>, <<"t">>, <<SP, "t", NL>>}}
ParaElements ==
  {Frag(<<"a">>), Frag(<<SP>>), Frag(<<"a", NL, NL, "b">>), <<<<"b">>, <<SP>>>>}
BibElements ==
  {Bib(t, w, pb) : t \in {<<>>, <<"r">>}, w \in {<<>>, <<"y">>}, pb \in {<<>>, <<"p">>}}
ParserMarkups ==
  {MalformedXml}
  \cup {[wellformed |-> TRUE, title |-> t, paras |-> ps, bibs |-> bs] :
          t \in TitleElements, ps \in SeqsUpTo(ParaElements, MaxParas),
          bs \in SeqsUpTo(BibElements, MaxBibs)}

InitParse ==
  /\ DEEPL_API_KEY = API_KEY
  /\ input_dir = {}
  /\ xml_files = [b \in Bases |-> NoFile]
  /\ docx_files = [b \in Bases |-> NoFile]
  /\ run = 0 /\ pdf_files = <<>> /\ k = 0
  /\ extracted_data = NoData
  /\ jp_title = <<>> /\ jp_body = <<>>
  /\ full_text = <<>> /\ paragraphs = <<>> /\ i = 0 /\ translated_paragraphs = <<>>
  /\ grobid_log = <<>> /\ deepl_log = <<>> /\ exchanges = <<>> /\ stages = <<>>
  /\ xml_content \in ParserMarkups
  /\ pc = "parse"

NextParse == Parse

SpecParse == InitParse /\ [][NextParse]_vars

Parsed == stages # <<>> /\ Last(stages) = "parse" /\ ~extracted_data.none

\* C13 (as claimed): the title the parser returns is never the empty string.
C13_TitleNeverEmpty == Parsed => extracted_data.title # <<>>

\* C14: for markup with n bibliography entries the parser returns n reference
\* strings; the j-th starts with "[j] " and is followed by the parts of the
\* j-th entry (the quoted title first when it has one), or by "Extraction
\* Failed" when the entry has no part.
C14_ReferencesNumbered ==
  Parsed =>
    LET refs == extracted_data.references
        bibs == xml_content.bibs
    IN /\ Len(refs) = Len(bibs)
       /\ \A j \in 1..Len(bibs) :
            LET digit == <<"1", "2", "3", "4", "5", "6", "7", "8", "9">>[j]
                rest == SubSeq(refs[j], 5, Len(refs[j]))
                bib == bibs[j]
            IN /\ Len(refs[j]) > 4
               /\ SubSeq(refs[j], 1, 4) = <<"[", digit, "]", SP>>
               /\ (bib.title = <<>> /\ bib.when = <<>> /\ bib.publisher = <<>>)
                    = (rest = EXTRACTION_FAILED)
               /\ bib.title # <<>> =>
                    SubSeq(rest, 1, Len(bib.title) + 2) = <<"\"">> \o bib.title \o <<"\"">>
               /\ bib.publisher # <<>> =>
                    SubSeq(rest, Len(rest) - Len(bib.publisher) + 1, Len(rest)) = bib.publisher

\* two entries, the first without any part: it still takes number 1
C14_Witness ==
  /\ Parsed
  /\ xml_content.bibs = <<Bib(<<>>, <<>>, <<>>), Bib(<<"r">>, <<"y">>, <<"p">>)>>
  /\ extracted_data.references =
       << <<"[", "1", "]", SP>> \o EXTRACTION_FAILED,
          <<"[", "2", "]", SP, "\"", "r", "\"", SP, "(", "y", ")", SP, "p">> >>

\* C15 (as claimed): the artifacts of one input never make another input be
\* skipped or parsed from foreign markup.  In the first run over output
\* directories that held no artifact for the item's base name, every item
\* therefore starts with its own extraction: none is skipped and none loads an
\* existing raw markup.
C15_DistinctInputsDistinctArtifacts ==
  (/\ run = 1 /\ pc \in {"parse", "next"}
   /\ docx_files[base_filename(pdf_files[k])] # ForeignDocx)
  => (stages # <<>> /\ stages[1] = "extract")

\* C16: whenever an item is at the parse, a translation or the assembly, or has
\* ended after one of them, its raw markup is on disk (and is the markup being
\* processed); a raw-markup file stays as it is; and an extraction request is
\* made only for an item whose raw markup is absent.  So after a success
\* response, whatever fails later, no later run asks the extraction service for
\* that item again.
C16_MarkupSavedBeforeLaterStages ==
  /\ []((pc \in {"parse", "title", "tlt_split", "tlt_loop", "word"}) =>
          xml_files[base_filename(pdf_files[k])] =
            [exists |-> TRUE, content |-> xml_content])
  /\ []((pc \in {"next", "crashed"} /\ Len(stages) >= 2) =>
          xml_files[base_filename(pdf_files[k])] =
            [exists |-> TRUE, content |-> xml_content])
  /\ [][\A b \in Bases : xml_files[b].exists => xml_files'[b] = xml_files[b]]_vars
  /\ [][(pc = "psp" /\ grobid_log' # grobid_log)
          => ~xml_files[base_filename(pdf_files[k])].exists]_vars

\* second run, first item: the markup saved by the first run (whose assembly
\* failed) is loaded, and no extraction request is made
C16_Witness ==
  /\ run = 2 /\ k = 1 /\ pc = "parse" /\ stages = <<"load">>
  /\ xml_content = TwoParaXml
  /\ ~docx_files[base_filename(pdf_files[k])].exists
  /\ grobid_log = <<>>

\* C17 (as claimed): once the body loop has ended, the body requests are the
\* paragraphs the parser extracted, one request per paragraph with exactly its
\* text.
C17_OneRequestPerExtractedParagraph ==
  (pc = "word" \/ Assembled) =>
    LET extracted == BodyList(xml_content.paras) IN
      /\ Len(BodyRequests) = Len(extracted)
      /\ \A n \in 1..Len(extracted) : BodyRequests[n].text = extracted[n]

\* C18: in every step, a raw-markup file that exists and a final document that
\* exists are left exactly as they are: neither is deleted, and neither is
\* written a second time.
C18_ArtifactsWrittenOnce ==
  [][\A b \in Bases :
       /\ xml_files[b].exists => xml_files'[b] = xml_files[b]
       /\ docx_files[b].exists => docx_files'[b] = docx_files[b]]_vars

\* second run: an item whose two artifacts the first run wrote is skipped
C18_Witness ==
  /\ run = 2 /\ pc = "next" /\ stages = <<>>
  /\ xml_files[base_filename(pdf_files[k])].exists
  /\ docx_files[base_filename(pdf_files[k])].exists
  /\ docx_files[base_filename(pdf_files[k])] # ForeignDocx

\* The output directories were empty when the program first started: no final
\* document is one the program did not write (a document is never rewritten).
StartedEmpty == \A b \in Bases : docx_files[b] # ForeignDocx

\* C19: starting from empty output directories, in every reachable state a
\* base name that has a final document has a raw-markup file.
C19_DocumentImpliesMarkup ==
  StartedEmpty => \A b \in Bases : docx_files[b].exists => xml_files[b].exists

\* both artifacts of "b" exist at the end of a run, those of "a" do not
C19_Witness ==
  /\ StartedEmpty /\ pc = "done"
  /\ docx_files[<<"b">>].exists /\ xml_files[<<"b">>].exists
  /\ ~docx_files[<<"a">>].exists

====
